---- MODULE Spec2Model ----
(***************************************************************************)
(* Model of the Clipboard component (src/unnamed/part_000): the in-memory  *)
(* history store held in React state, the handlers that change it, the     *)
(* derived filtered list, the three localStorage persistence effects and   *)
(* the mount of the component, which loads the persisted state.            *)
(*                                                                         *)
(* A JavaScript string is a sequence of one-character strings, so that     *)
(* trim, includes, toLowerCase, substring, parseInt and toString are       *)
(* computed character by character as the runtime computes them.           *)
(***************************************************************************)
EXTENDS Integers, Sequences, FiniteSets, TLC

VARIABLES
    text,               \* useState("")            line 50: the textarea's content
    items,              \* useState([])            line 51: the entry list
    searchQuery,        \* useState("")            line 52
    selectedTags,       \* useState([])            line 53
    newTag,             \* useState("")            line 54: the custom-tag input
    contentType,        \* useState("text")        line 55
    maxItems,           \* useState(50)            line 56
    allTags,            \* useState(PREDEFINED)    line 59: the tag vocabulary
    isTagFilterActive,  \* useState(false)         line 60
    storage,            \* localStorage: the three persisted values (lines 93-106)
    now,                \* the last value Date.now() returned (a non-decreasing clock)
    lastOp,             \* history: the handler that ran last, and its argument
    phase,              \* where the component is in its mount: "idle" once mounted
    queued,             \* the state updates the load effect asked for (lines 74-88)
    before              \* history: the state the page had when it was last closed

vars == <<text, items, searchQuery, selectedTags, newTag, contentType, maxItems,
          allTags, isTagFilterActive, storage, now, lastOp, phase, queued, before>>

\* The variables only a mount changes.
mountVars == <<phase, queued, before>>

---------------------------------------------------------------------------
(* Bounds of the model.                                                    *)

\* Date.now() returns values in 1..MaxClock.
MaxClock == 2

---------------------------------------------------------------------------
(* Program constants.                                                      *)

\* useState(50), and the fallback of the Maximum entries input
DefaultMaxItems == 50

\* createPreview cuts at 50 characters
PreviewLen == 50

TagWork     == <<"W", "o", "r", "k">>
TagPersonal == <<"P", "e", "r", "s", "o", "n", "a", "l">>
TagCode     == <<"C", "o", "d", "e">>
TagLinks    == <<"L", "i", "n", "k", "s">>
TagNotes    == <<"N", "o", "t", "e", "s">>
TagTemp     == <<"T", "e", "m", "p">>

PREDEFINED_TAGS == <<TagWork, TagPersonal, TagCode, TagLinks, TagNotes, TagTemp>>

ContentTypes == {"text", "markdown", "code", "url"}

---------------------------------------------------------------------------
(* JavaScript strings.                                                     *)

Range(s) == {s[i] : i \in 1..Len(s)}

Min(a, b) == IF a < b THEN a ELSE b
Max(a, b) == IF a > b THEN a ELSE b

\* White space as String.prototype.trim and parseInt strip it.
IsWhiteSpace(c) == c \in {" ", "\n", "\t", "\r"}

RECURSIVE trimStart(_)
trimStart(s) ==
    IF s = <<>> THEN <<>>
    ELSE IF IsWhiteSpace(Head(s)) THEN trimStart(Tail(s)) ELSE s

RECURSIVE trimEnd(_)
trimEnd(s) ==
    IF s = <<>> THEN <<>>
    ELSE IF IsWhiteSpace(s[Len(s)]) THEN trimEnd(SubSeq(s, 1, Len(s) - 1)) ELSE s

\* String.prototype.trim
trim(s) == trimEnd(trimStart(s))

\* String.prototype.startsWith
startsWith(s, sub) == Len(sub) <= Len(s) /\ SubSeq(s, 1, Len(sub)) = sub

\* String.prototype.includes
includes(s, sub) ==
    \E i \in 1..(Len(s) - Len(sub) + 1) : SubSeq(s, i, i + Len(sub) - 1) = sub

\* String.prototype.substring(0, n)
substring0(s, n) == SubSeq(s, 1, Min(Max(n, 0), Len(s)))

UpperCase == <<"A", "B", "C", "D", "E", "F", "G", "H", "I", "J", "K", "L", "M",
               "N", "O", "P", "Q", "R", "S", "T", "U", "V", "W", "X", "Y", "Z">>
LowerCase == <<"a", "b", "c", "d", "e", "f", "g", "h", "i", "j", "k", "l", "m",
               "n", "o", "p", "q", "r", "s", "t", "u", "v", "w", "x", "y", "z">>

toLowerChar(c) ==
    IF \E i \in 1..Len(UpperCase) : UpperCase[i] = c
    THEN LowerCase[CHOOSE i \in 1..Len(UpperCase) : UpperCase[i] = c]
    ELSE c

\* String.prototype.toLowerCase
toLowerCase(s) == [i \in 1..Len(s) |-> toLowerChar(s[i])]

Digits == <<"0", "1", "2", "3", "4", "5", "6", "7", "8", "9">>

IsDigit(c) == \E d \in 1..10 : Digits[d] = c
DigitValue(c) == (CHOOSE d \in 1..10 : Digits[d] = c) - 1

RECURSIVE NatToString(_)
NatToString(n) ==
    IF n < 10 THEN <<Digits[n + 1]>>
    ELSE NatToString(n \div 10) \o <<Digits[(n % 10) + 1]>>

\* Number.prototype.toString of an integer
NumToString(n) == IF n < 0 THEN <<"-">> \o NatToString(-n) ELSE NatToString(n)

RECURSIVE digitsValue(_, _)
digitsValue(s, acc) ==
    IF s = <<>> \/ ~IsDigit(Head(s)) THEN acc
    ELSE digitsValue(Tail(s), 10 * acc + DigitValue(Head(s)))

\* Number.parseInt(s) on decimal input: leading white space, an optional sign,
\* then the longest prefix of digits; NaN when there is no digit.
parseInt(s) ==
    LET t == trimStart(s)
        signed == t # <<>> /\ Head(t) \in {"-", "+"}
        body == IF signed THEN Tail(t) ELSE t
        v == digitsValue(body, 0)
    IN IF body = <<>> \/ ~IsDigit(Head(body))
       THEN [nan |-> TRUE, val |-> 0]
       ELSE [nan |-> FALSE, val |-> IF signed /\ Head(t) = "-" THEN -v ELSE v]

\* Array.prototype.slice(0, end)
slice0(s, end) ==
    IF end < 0 THEN SubSeq(s, 1, Max(Len(s) + end, 0))
    ELSE SubSeq(s, 1, Min(end, Len(s)))

\* JSON.stringify: the stored document carries the value it was made from.
JSONstringify(v) == [json |-> v]

\* A stored text that JSON.parse rejects.
Unparseable(chars) == [raw |-> chars]

IsParseable(doc) == "json" \in DOMAIN doc

\* The truth value of a stored text: only the empty string is falsy.
IsTruthy(doc) == IsParseable(doc) \/ doc.raw # <<>>

\* JSON.parse: the value of a document, or the SyntaxError it throws.
JSONparse(doc) ==
    IF IsParseable(doc) THEN [threw |-> FALSE, val |-> doc.json]
    ELSE [threw |-> TRUE, val |-> <<>>]

\* The characters JSON.stringify escapes in a string.
escapeChar(c) ==
    IF c = "\"" THEN <<"\\", "\"">>
    ELSE IF c = "\\" THEN <<"\\", "\\">>
    ELSE IF c = "\n" THEN <<"\\", "n">>
    ELSE IF c = "\t" THEN <<"\\", "t">>
    ELSE IF c = "\r" THEN <<"\\", "r">>
    ELSE <<c>>

RECURSIVE escape(_)
escape(s) == IF s = <<>> THEN <<>> ELSE escapeChar(Head(s)) \o escape(Tail(s))

unescapeChar(c) ==
    IF c = "n" THEN "\n" ELSE IF c = "t" THEN "\t" ELSE IF c = "r" THEN "\r" ELSE c

RECURSIVE unescape(_)
unescape(s) ==
    IF s = <<>> THEN <<>>
    ELSE IF Head(s) = "\\" /\ Len(s) >= 2
         THEN <<unescapeChar(s[2])>> \o unescape(Tail(Tail(s)))
    ELSE <<Head(s)>> \o unescape(Tail(s))

\* The JSON text of a string, and the string of such a text.
JSONstring(s) == <<"\"">> \o escape(s) \o <<"\"">>
stringOfJSON(tok) == unescape(SubSeq(tok, 2, Len(tok) - 1))

\* The JSON of an entry: an object whose members are the JSON texts of the
\* entry's strings and numbers; type is one of four words without a
\* character to escape.
itemToJSON(e) ==
    [id        |-> JSONstring(e.id),
     text      |-> JSONstring(e.text),
     timestamp |-> NumToString(e.timestamp),
     preview   |-> JSONstring(e.preview),
     tags      |-> [i \in 1..Len(e.tags) |-> JSONstring(e.tags[i])],
     type      |-> e.type]

itemOfJSON(o) ==
    [id        |-> stringOfJSON(o.id),
     text      |-> stringOfJSON(o.text),
     timestamp |-> parseInt(o.timestamp).val,
     preview   |-> stringOfJSON(o.preview),
     tags      |-> [i \in 1..Len(o.tags) |-> stringOfJSON(o.tags[i])],
     type      |-> o.type]

itemsToJSON(its) == [i \in 1..Len(its) |-> itemToJSON(its[i])]
itemsOfJSON(arr) == [i \in 1..Len(arr) |-> itemOfJSON(arr[i])]

tagsToJSON(tags) == [i \in 1..Len(tags) |-> JSONstring(tags[i])]
tagsOfJSON(arr) == [i \in 1..Len(arr) |-> stringOfJSON(arr[i])]

---------------------------------------------------------------------------
(* The component's pure functions.                                         *)

Ellipsis == <<".", ".", ".">>

\* A mutant of createPreview: a text of 50 characters is cut too.
createPreviewCutsAtLimit(t) ==
    IF Len(t) >= PreviewLen THEN substring0(t, PreviewLen) \o Ellipsis ELSE t

\* createPreview, lines 121-123
createPreview(t) ==
    IF Len(t) > PreviewLen THEN substring0(t, PreviewLen) \o Ellipsis ELSE t

S_http  == <<"h", "t", "t", "p", ":", "/", "/">>
S_https == <<"h", "t", "t", "p", "s", ":", "/", "/">>
\* The grave accent (U+0060), which the lexer of TLA+ does not admit in a string.
GraveAccent == "GRAVE"
S_fence == <<GraveAccent, GraveAccent, GraveAccent>>
S_function == <<"f", "u", "n", "c", "t", "i", "o", "n">>
S_const  == <<"c", "o", "n", "s", "t", " ">>
S_import == <<"i", "m", "p", "o", "r", "t", " ">>

\* text.match(/^https?:\/\//), line 126
matchesUrl(t) == startsWith(t, S_http) \/ startsWith(t, S_https)

\* line 127
looksLikeCode(t) ==
    includes(t, S_fence) \/ includes(t, S_function) \/ includes(t, S_const)
        \/ includes(t, S_import)

\* line 129
looksLikeMarkdown(t) ==
    includes(t, <<"#">>) \/ includes(t, <<"*", "*">>) \/ includes(t, <<"*">>)
        \/ includes(t, <<"[">>) \/ includes(t, <<"]">>)

\* A mutant of detectContentType: the code test runs before the URL test.
detectContentTypeCodeFirst(t) ==
    IF looksLikeCode(t) THEN "code"
    ELSE IF matchesUrl(t) THEN "url"
    ELSE IF looksLikeMarkdown(t) THEN "markdown"
    ELSE "text"

\* detectContentType, lines 125-132
detectContentType(t) ==
    IF matchesUrl(t) THEN "url"
    ELSE IF looksLikeCode(t) THEN "code"
    ELSE IF looksLikeMarkdown(t) THEN "markdown"
    ELSE "text"

\* line 149: the explicit selection wins unless it is the default "text"
detectedType(t, ctype) ==
    IF ctype = "text" THEN detectContentType(trim(t)) ELSE ctype

\* A mutant of the guard of saveText: the input is not trimmed before the test.
saveGuardNoTrim(t) == t # <<>>

\* line 147: if (!text.trim()) return
saveGuard(t) == trim(t) # <<>>

\* The new entry of saveText, lines 151-158. t1 and t2 are what the two
\* calls of Date.now() return.
newItem(t, tags, ctype, t1, t2) ==
    [id        |-> NumToString(t1),
     text      |-> trim(t),
     timestamp |-> t2,
     preview   |-> createPreview(trim(t)),
     tags      |-> tags,
     type      |-> detectedType(t, ctype)]

\* Mutants of the updater of saveText.
updateItemsAppend(prev, item, max) ==
    LET filtered == SelectSeq(prev, LAMBDA e : e.text # item.text)
    IN slice0(filtered \o <<item>>, max)

updateItemsNoDedup(prev, item, max) == slice0(<<item>> \o prev, max)

updateItemsDropNewest(prev, item, max) ==
    LET filtered == SelectSeq(prev, LAMBDA e : e.text # item.text)
        all == <<item>> \o filtered
    IN SubSeq(all, Max(Len(all) - max, 0) + 1, Len(all))

\* The updater given to setItems by saveText, lines 160-164
updateItems(prev, item, max) ==
    LET filtered == SelectSeq(prev, LAMBDA e : e.text # item.text)
    IN slice0(<<item>> \o filtered, max)

\* The updater given to setItems by deleteItem, line 197
removeById(prev, id) == SelectSeq(prev, LAMBDA e : e.id # id)

\* The Maximum entries input, line 474:
\* Math.max(1, Number.parseInt(e.target.value) || 50)
maxItemsFromInput(v) ==
    LET p == parseInt(v)
    IN IF p.nan \/ p.val = 0 THEN Max(1, DefaultMaxItems) ELSE Max(1, p.val)

\* The three persistence effects, lines 93-106
persisted(its, max, tags) ==
    [items    |-> JSONstringify(itemsToJSON(its)),
     maxItems |-> NumToString(max),
     tags     |-> JSONstringify(tagsToJSON(tags))]

---------------------------------------------------------------------------
(* The state machine.                                                      *)

\* What lastOp records of a handler: its name, its argument, whether it got
\* past its guard, and for saveText whether an entry with the same text was
\* in the list and how many entries slice cut off.
Op(name, arg, ok, dup, evicted) ==
    [name |-> name, arg |-> arg, ok |-> ok, dup |-> dup, evicted |-> evicted]

SimpleOp(name) == Op(name, <<>>, TRUE, FALSE, 0)

\* An update the load effect may have asked for: whether it did, and the value.
NoUpdate == [set |-> FALSE, val |-> <<>>]
Update(v) == [set |-> TRUE, val |-> v]

NothingQueued == [items |-> NoUpdate, maxItems |-> NoUpdate, allTags |-> NoUpdate]

\* What before records when the page is closed: the entry list, the setting
\* and the vocabulary of that moment, and since then the keys of localStorage
\* that were overwritten with a text that is not JSON.
NoSnapshot ==
    [taken |-> FALSE, items |-> <<>>, maxItems |-> 0, allTags |-> <<>>,
     corrupt |-> <<>>]

Init ==
    /\ text = <<>>
    /\ items = <<>>
    /\ searchQuery = <<>>
    /\ selectedTags = <<>>
    /\ newTag = <<>>
    /\ contentType = "text"
    /\ maxItems = DefaultMaxItems
    /\ allTags = PREDEFINED_TAGS
    /\ isTagFilterActive = FALSE
    /\ storage = persisted(<<>>, DefaultMaxItems, PREDEFINED_TAGS)
    /\ now = 1
    /\ lastOp = SimpleOp("init")
    /\ phase = "idle"
    /\ queued = NothingQueued
    /\ before = NoSnapshot

\* The textarea's onChange, line 405
setText(v) ==
    /\ text' = v
    /\ lastOp' = SimpleOp("setText")
    /\ UNCHANGED <<mountVars, items, searchQuery, selectedTags, newTag, contentType, maxItems,
                   allTags, isTagFilterActive, storage, now>>

\* saveText, lines 146-175 (the Save button and the Enter key). t1 and t2 are
\* the values of the two calls of Date.now(), lines 152 and 154.
saveText(t1, t2) ==
    IF ~saveGuard(text)
    THEN /\ lastOp' = Op("saveText", <<>>, FALSE, FALSE, 0)
         /\ UNCHANGED <<mountVars, text, items, searchQuery, selectedTags, newTag, contentType,
                        maxItems, allTags, isTagFilterActive, storage, now>>
    ELSE LET item == newItem(text, selectedTags, contentType, t1, t2)
             kept == SelectSeq(items, LAMBDA e : e.text # item.text)
         IN /\ now <= t1 /\ t1 <= t2 /\ t2 <= MaxClock
            /\ items' = updateItems(items, item, maxItems)
            /\ text' = <<>>
            /\ selectedTags' = <<>>
            /\ contentType' = "text"
            /\ now' = t2
            /\ storage' = persisted(items', maxItems, allTags)
            /\ lastOp' = Op("saveText", <<>>, TRUE, Len(kept) < Len(items),
                            Len(kept) + 1 - Len(items'))
            /\ UNCHANGED <<mountVars, searchQuery, newTag, maxItems, allTags, isTagFilterActive>>

\* deleteItem, lines 196-202
deleteItem(id) ==
    /\ items' = removeById(items, id)
    /\ storage' = persisted(items', maxItems, allTags)
    /\ lastOp' = Op("deleteItem", id, TRUE, FALSE, 0)
    /\ UNCHANGED <<mountVars, text, searchQuery, selectedTags, newTag, contentType, maxItems,
                   allTags, isTagFilterActive, now>>

\* clearAll, lines 204-210; its button is disabled on an empty list, line 488
clearAll ==
    /\ items # <<>>
    /\ items' = <<>>
    /\ storage' = persisted(items', maxItems, allTags)
    /\ lastOp' = SimpleOp("clearAll")
    /\ UNCHANGED <<mountVars, text, searchQuery, selectedTags, newTag, contentType, maxItems,
                   allTags, isTagFilterActive, now>>

\* The Maximum entries input's onChange, lines 471-478
setMaxItemsInput(v) ==
    /\ maxItems' = maxItemsFromInput(v)
    /\ storage' = persisted(items, maxItems', allTags)
    /\ lastOp' = SimpleOp("setMaxItems")
    /\ UNCHANGED <<mountVars, text, items, searchQuery, selectedTags, newTag, contentType,
                   allTags, isTagFilterActive, now>>

\* The content type select's onValueChange, line 335
setContentType(v) ==
    /\ v \in ContentTypes
    /\ contentType' = v
    /\ lastOp' = SimpleOp("setContentType")
    /\ UNCHANGED <<mountVars, text, items, searchQuery, selectedTags, newTag, maxItems,
                   allTags, isTagFilterActive, storage, now>>

\* The search input's onChange, line 506
setSearchQuery(v) ==
    /\ searchQuery' = v
    /\ lastOp' = SimpleOp("setSearchQuery")
    /\ UNCHANGED <<mountVars, text, items, selectedTags, newTag, contentType, maxItems,
                   allTags, isTagFilterActive, storage, now>>

\* The custom tag input's onChange, line 387
setNewTag(v) ==
    /\ newTag' = v
    /\ lastOp' = SimpleOp("setNewTag")
    /\ UNCHANGED <<mountVars, text, items, searchQuery, selectedTags, contentType, maxItems,
                   allTags, isTagFilterActive, storage, now>>

\* The Add Tag select's onValueChange, lines 360-367; it offers the tags of
\* the vocabulary that are not selected, lines 374-375
selectTag(value) ==
    /\ value \in Range(allTags) \ Range(selectedTags)
    /\ selectedTags' = Append(selectedTags, value)
    /\ lastOp' = SimpleOp("selectTag")
    /\ UNCHANGED <<mountVars, text, items, searchQuery, newTag, contentType, maxItems,
                   allTags, isTagFilterActive, storage, now>>

\* A mutant of the test of addTag: a tag of the vocabulary is added again.
canAddTagNoDedup(tag, tags) == trim(tag) # <<>>

\* line 135: newTag.trim() && !allTags.includes(newTag.trim())
canAddTag(tag, tags) == trim(tag) # <<>> /\ trim(tag) \notin Range(tags)

\* addTag, lines 134-140
addTag ==
    IF ~canAddTag(newTag, allTags)
    THEN /\ lastOp' = Op("addTag", newTag, FALSE, FALSE, 0)
         /\ UNCHANGED <<mountVars, text, items, searchQuery, selectedTags, newTag, contentType,
                        maxItems, allTags, isTagFilterActive, storage, now>>
    ELSE /\ allTags' = Append(allTags, trim(newTag))
         /\ selectedTags' = Append(selectedTags, trim(newTag))
         /\ newTag' = <<>>
         /\ storage' = persisted(items, maxItems, allTags')
         /\ lastOp' = Op("addTag", newTag, TRUE, FALSE, 0)
         /\ UNCHANGED <<mountVars, text, items, searchQuery, contentType, maxItems,
                        isTagFilterActive, now>>

\* removeTag, lines 142-144, called from the badges of the selected tags
removeTag(tagToRemove) ==
    /\ tagToRemove \in Range(selectedTags)
    /\ selectedTags' = SelectSeq(selectedTags, LAMBDA tag : tag # tagToRemove)
    /\ lastOp' = SimpleOp("removeTag")
    /\ UNCHANGED <<mountVars, text, items, searchQuery, newTag, contentType, maxItems,
                   allTags, isTagFilterActive, storage, now>>

\* The Filter ON/OFF button, line 531, shown while a tag is selected, line 512
toggleTagFilter ==
    /\ selectedTags # <<>>
    /\ isTagFilterActive' = ~isTagFilterActive
    /\ lastOp' = SimpleOp("toggleTagFilter")
    /\ UNCHANGED <<mountVars, text, items, searchQuery, selectedTags, newTag, contentType,
                   maxItems, allTags, storage, now>>

\* The Clear All button of the filter controls, lines 543-547
clearFilters ==
    /\ selectedTags # <<>>
    /\ selectedTags' = <<>>
    /\ isTagFilterActive' = FALSE
    /\ lastOp' = SimpleOp("clearFilters")
    /\ UNCHANGED <<mountVars, text, items, searchQuery, newTag, contentType, maxItems,
                   allTags, storage, now>>

\* Mutants of the filter: every selected tag is required (AND), and the
\* search compares without folding case.
matchesTagsAll(item, sel, active) ==
    ~active \/ Len(sel) = 0 \/ \A i \in 1..Len(sel) : sel[i] \in Range(item.tags)

matchesSearchCaseSensitive(item, query) == includes(item.text, query)

\* A mutant of the tag test: with the filter on and no tag selected no
\* entry passes.
matchesTagsNoneSelected(item, sel, active) ==
    ~active \/ \E i \in 1..Len(sel) : sel[i] \in Range(item.tags)

\* line 244
matchesSearch(item, query) == includes(toLowerCase(item.text), toLowerCase(query))

\* lines 245-246
matchesTags(item, sel, active) ==
    ~active \/ Len(sel) = 0 \/ \E i \in 1..Len(sel) : sel[i] \in Range(item.tags)

\* filteredItems, lines 243-248
filteredItems ==
    SelectSeq(items, LAMBDA item :
        matchesSearch(item, searchQuery)
            /\ matchesTags(item, selectedTags, isTagFilterActive))

---------------------------------------------------------------------------
(* The mount: the first render and the effects of lines 66-106.            *)

\* What Number.parseInt gives for a text without a leading number.
NaN == "NaN"

\* lines 72-78: the entry list, unless the stored text is empty or not JSON
loadItems(doc) ==
    IF ~IsTruthy(doc) THEN NoUpdate
    ELSE LET r == JSONparse(doc)
         IN IF r.threw THEN NoUpdate ELSE Update(itemsOfJSON(r.val))

\* lines 80-82
loadMaxItems(str) ==
    IF str = <<>> THEN NoUpdate
    ELSE LET n == parseInt(str) IN Update(IF n.nan THEN NaN ELSE n.val)

\* lines 84-90: the vocabulary, or the predefined tags when the stored text
\* is not JSON
loadTags(doc) ==
    IF ~IsTruthy(doc) THEN NoUpdate
    ELSE LET r == JSONparse(doc)
         IN IF r.threw THEN Update(PREDEFINED_TAGS) ELSE Update(tagsOfJSON(r.val))

\* A mutant of the load effect: one try block around the three reads, so
\* that an entry list that is not JSON ends the effect.
loadFromStorageOneTry(st) ==
    IF IsTruthy(st.items) /\ JSONparse(st.items).threw THEN NothingQueued
    ELSE [items    |-> loadItems(st.items),
          maxItems |-> loadMaxItems(st.maxItems),
          allTags  |-> loadTags(st.tags)]

\* The load effect, lines 67-91: the updates it asks for
loadFromStorage(st) ==
    [items    |-> loadItems(st.items),
     maxItems |-> loadMaxItems(st.maxItems),
     allTags  |-> loadTags(st.tags)]

\* A mutant of the mount's effects: the persist effects run before the load
\* effect, which then reads what they wrote.
mountEffectsPersistFirst(st, its, max, tags) ==
    [queued  |-> loadFromStorage(persisted(its, max, tags)),
     storage |-> persisted(its, max, tags)]

\* The effects of the first render, in the order of their declaration: the
\* load effect (lines 67-91) reads localStorage, then the three persist
\* effects (lines 94-106) write the state of the first render.
mountEffects(st, its, max, tags) ==
    [queued  |-> loadFromStorage(st),
     storage |-> persisted(its, max, tags)]

\* The value of a state variable at the render after an update
updated(update, current) == IF update.set THEN update.val ELSE current

\* The page is closed and opened again: the component renders with the
\* initial values of its useState calls, lines 50-60; localStorage is kept.
reload ==
    /\ phase = "idle"
    /\ text' = <<>>
    /\ items' = <<>>
    /\ searchQuery' = <<>>
    /\ selectedTags' = <<>>
    /\ newTag' = <<>>
    /\ contentType' = "text"
    /\ maxItems' = DefaultMaxItems
    /\ allTags' = PREDEFINED_TAGS
    /\ isTagFilterActive' = FALSE
    /\ phase' = "rendered"
    /\ queued' = NothingQueued
    /\ before' = [taken |-> TRUE, items |-> items, maxItems |-> maxItems,
                  allTags |-> allTags, corrupt |-> <<>>]
    /\ lastOp' = SimpleOp("reload")
    /\ UNCHANGED <<storage, now>>

\* While the page is closed the text stored under a key is replaced by one
\* that is not JSON.
corruptStorage(key, chars) ==
    /\ phase = "rendered"
    /\ key \in {"items", "tags"} \ Range(before.corrupt)
    /\ storage' = [storage EXCEPT ![key] = Unparseable(chars)]
    /\ before' = [before EXCEPT !.corrupt = Append(@, key)]
    /\ lastOp' = SimpleOp("corruptStorage")
    /\ UNCHANGED <<text, items, searchQuery, selectedTags, newTag, contentType,
                   maxItems, allTags, isTagFilterActive, now, phase, queued>>

\* The effects of the first render run, lines 66-106.
runMountEffects ==
    LET r == mountEffects(storage, items, maxItems, allTags)
    IN /\ phase = "rendered"
       /\ queued' = r.queued
       /\ storage' = r.storage
       /\ phase' = "effects"
       /\ lastOp' = SimpleOp("mountEffects")
       /\ UNCHANGED <<text, items, searchQuery, selectedTags, newTag, contentType,
                      maxItems, allTags, isTagFilterActive, now, before>>

\* The render with the updates of the load effect, and the persist effects
\* of the values that changed, lines 94-106.
rerender ==
    /\ phase = "effects"
    /\ items' = updated(queued.items, items)
    /\ maxItems' = updated(queued.maxItems, maxItems)
    /\ allTags' = updated(queued.allTags, allTags)
    /\ storage' = persisted(items', maxItems', allTags')
    /\ phase' = "idle"
    /\ queued' = NothingQueued
    /\ before' = NoSnapshot
    /\ lastOp' = Op("mounted", before.corrupt, TRUE, FALSE, 0)
    /\ UNCHANGED <<text, searchQuery, selectedTags, newTag, contentType,
                   isTagFilterActive, now>>

---------------------------------------------------------------------------
(* Inputs.                                                                 *)

ClockValues == 1..MaxClock

\* The ids deleteItem is called with: any id Date.now() can have produced.
IdChoices == {NumToString(t) : t \in ClockValues}

\* Texts typed into the textarea: white space only, two spellings of one
\* trimmed text, and two more texts.
StoreTexts ==
    { <<" ">>, <<"a">>, <<" ", "a", "\n">>, <<"b">>, <<"c">> }

\* Values of the Maximum entries input.
MaxItemsInputs ==
    { <<"1">>, <<"2">>, <<"0">>, <<"-", "3">>, <<>>, <<"a", "b", "c">>,
      <<"2", "0", "1">> }

\* Texts, tags and queries of the tag and filter scenarios.
TagTexts == { <<" ">>, <<"a">> }

NewTagInputs == { <<" ", "x", " ">>, TagWork, <<" ">> }

FilterTexts == { <<"A", "b">>, <<"b">> }

SearchInputs == { <<>>, <<"a", "B">>, <<"b">> }

\* The texts of the type detection scenarios: the scenarios of the
\* specification's section 8, and texts in which two of the tests apply.
DetectTexts ==
    { <<" ", "h", "i", " ">>,
      S_https \o <<"e", ".", "c", "o">>,
      S_http \o <<"e">>,
      <<" ">> \o S_https \o <<"a", " ">> \o S_function,
      S_https \o <<"#">>,
      <<"a", " ">> \o S_https,
      <<"h", "t", "t", "p", "s", "/", "/">>,
      <<"#", " ", "T", "\n", "*", "*", "b", "*", "*">>,
      S_const \o <<"x", " ", "=", " ", "1">>,
      <<"c", "o", "n", "s", "t">>,
      <<"h", "e", "l", "l", "o", " ", "w", "o", "r", "l", "d">>,
      S_fence \o <<"#">>,
      S_import \o <<"[", "x", "]">>,
      <<"a">> \o S_function \o <<"*">>,
      <<"a", "*", "b">>,
      <<"[", "a">>,
      <<"a", "]">>,
      <<"F", "u", "n", "c", "t", "i", "o", "n">> }

\* The store: typing, saving, deleting, clearing, the capacity setting.
NextStore ==
    \/ \E v \in StoreTexts : setText(v)
    \/ \E t1, t2 \in ClockValues : saveText(t1, t2)
    \/ \E id \in IdChoices : deleteItem(id)
    \/ clearAll
    \/ \E v \in MaxItemsInputs : setMaxItemsInput(v)

Spec == Init /\ [][NextStore]_vars

\* The tag vocabulary and the selections a save consumes. Both calls of
\* Date.now() of a save return the same value here.
NextTags ==
    \/ \E v \in TagTexts : setText(v)
    \/ \E t \in ClockValues : saveText(t, t)
    \/ \E id \in IdChoices : deleteItem(id)
    \/ clearAll
    \/ \E v \in {"text", "code"} : setContentType(v)
    \/ \E v \in NewTagInputs : setNewTag(v)
    \/ addTag
    \/ selectTag(TagWork)
    \/ \E tag \in Range(selectedTags) : removeTag(tag)
    \/ toggleTagFilter
    \/ clearFilters

SpecTags == Init /\ [][NextTags]_vars

\* The visible list: searching and filtering by tags. Both calls of
\* Date.now() of a save return the same value here.
NextFilter ==
    \/ \E v \in FilterTexts : setText(v)
    \/ \E t \in ClockValues : saveText(t, t)
    \/ \E v \in SearchInputs : setSearchQuery(v)
    \/ \E value \in {TagWork, TagCode} : selectTag(value)
    \/ \E tag \in Range(selectedTags) : removeTag(tag)
    \/ toggleTagFilter
    \/ clearFilters

SpecFilter == Init /\ [][NextFilter]_vars

\* Type detection: one save of each text under each content type selection.
InitDetect ==
    /\ text \in DetectTexts
    /\ contentType \in ContentTypes
    /\ items = <<>>
    /\ searchQuery = <<>>
    /\ selectedTags = <<>>
    /\ newTag = <<>>
    /\ maxItems = DefaultMaxItems
    /\ allTags = PREDEFINED_TAGS
    /\ isTagFilterActive = FALSE
    /\ storage = persisted(<<>>, DefaultMaxItems, PREDEFINED_TAGS)
    /\ now = 1
    /\ lastOp = SimpleOp("init")
    /\ phase = "idle"
    /\ queued = NothingQueued
    /\ before = NoSnapshot

NextDetect == \E t1, t2 \in ClockValues : saveText(t1, t2)

SpecDetect == InitDetect /\ [][NextDetect]_vars

\* Texts, tags and settings of the restart scenarios; the second text holds
\* the characters JSON escapes.
RestartTexts == { <<"a">>, <<"q", "\"", "\\", "\n", "b">> }

RestartTagInputs == { <<"x", "\"">> }

RestartMaxItemsInputs == { <<"1">> }

\* Texts that are not JSON: a lone brace, and the empty text.
CorruptTexts == { <<"{">>, <<>> }

\* The handlers run once the component is mounted.
Mounted == phase = "idle"

\* Sessions and restarts.
NextRestart ==
    \/ \E v \in RestartTexts : Mounted /\ setText(v)
    \/ \E t \in ClockValues : Mounted /\ saveText(t, t)
    \/ \E id \in IdChoices : Mounted /\ deleteItem(id)
    \/ Mounted /\ clearAll
    \/ \E v \in RestartMaxItemsInputs : Mounted /\ setMaxItemsInput(v)
    \/ \E v \in RestartTagInputs : Mounted /\ setNewTag(v)
    \/ Mounted /\ addTag
    \/ reload
    \/ runMountEffects
    \/ rerender

SpecRestart == Init /\ [][NextRestart]_vars

\* Sessions and restarts with localStorage damaged between two sessions.
NextCorrupt ==
    \/ NextRestart
    \/ \E key \in {"items", "tags"}, chars \in CorruptTexts : corruptStorage(key, chars)

SpecCorrupt == Init /\ [][NextCorrupt]_vars

\* A text of n characters, the digits in turn.
Numbered(n) == [i \in 1..n |-> Digits[(i % 10) + 1]]

\* Texts around the length at which createPreview cuts, two of them padded
\* with white space that trim removes.
PreviewTexts ==
    { Numbered(1), Numbered(49), Numbered(50), Numbered(51), Numbered(52),
      Numbered(60),
      <<" ">> \o Numbered(50) \o <<" ">>,
      <<"\n">> \o Numbered(51) \o <<" ", " ">> }

\* Previews: one save of each text.
InitPreview ==
    /\ text \in PreviewTexts
    /\ contentType \in ContentTypes
    /\ items = <<>>
    /\ searchQuery = <<>>
    /\ selectedTags = <<>>
    /\ newTag = <<>>
    /\ maxItems = DefaultMaxItems
    /\ allTags = PREDEFINED_TAGS
    /\ isTagFilterActive = FALSE
    /\ storage = persisted(<<>>, DefaultMaxItems, PREDEFINED_TAGS)
    /\ now = 1
    /\ lastOp = SimpleOp("init")
    /\ phase = "idle"
    /\ queued = NothingQueued
    /\ before = NoSnapshot

NextPreview == \E t1, t2 \in ClockValues : saveText(t1, t2)

SpecPreview == InitPreview /\ [][NextPreview]_vars

\* Saving while tags are selected, a type is chosen and the filter is on.
\* The saves of this scenario fall into one millisecond.
NextConsume ==
    \/ \E v \in FilterTexts : setText(v)
    \/ saveText(now, now)
    \/ \E v \in {<<"a", "B">>} : setSearchQuery(v)
    \/ \E value \in {TagWork, TagCode} : selectTag(value)
    \/ \E v \in {"code"} : setContentType(v)
    \/ toggleTagFilter

SpecConsume == Init /\ [][NextConsume]_vars

---------------------------------------------------------------------------
(* The claims.                                                             *)

Texts(its) == {its[i].text : i \in 1..Len(its)}

SavedStep == lastOp'.name = "saveText" /\ lastOp'.ok

\* s without its k-th element
Without(s, k) == SubSeq(s, 1, k - 1) \o SubSeq(s, k + 1, Len(s))

\* p is a prefix of s
IsPrefix(p, s) == Len(p) <= Len(s) /\ \A i \in 1..Len(p) : s[i] = p[i]

\* t holds p at some position
Contains(t, p) ==
    \E k \in 0..(Len(t) - Len(p)) : \A i \in 1..Len(p) : t[k + i] = p[i]

\* C1: in every reachable state the list holds at most maxItems entries,
\* also right after maxItems is lowered below the length of the list.
C1_SizeWithinMaxItems == Len(items) <= maxItems

\* C2: after a successful save the list holds at most maxItems entries and is
\* the new entry followed by the previous entries of another text, in their
\* order, cut to the first maxItems: what is dropped is the tail. With
\* maxItems = 2 and two entries, saving a third text leaves the new entry
\* and the one saved before it.
C2_SaveDropsOldest ==
    [][SavedStep =>
        LET kept == SelectSeq(items, LAMBDA e : e.text # trim(text))
        IN /\ Len(items') <= maxItems
           /\ Len(items') = Min(maxItems, Len(kept) + 1)
           /\ items'[1].text = trim(text)
           /\ \A i \in 2..Len(items') : items'[i] = kept[i - 1]
           /\ (maxItems = 2 /\ Len(items) = 2 /\ trim(text) \notin Texts(items))
                 => /\ Len(items') = 2
                    /\ items'[1].text = trim(text)
                    /\ items'[2] = items[1]]_vars

C2_Witness ==
    /\ lastOp.name = "saveText" /\ lastOp.ok
    /\ lastOp.evicted > 0 /\ ~lastOp.dup
    /\ maxItems = 2 /\ Len(items) = 2

\* C3: no two entries have the same text, and saving a text whose trimmed form
\* is the text of an entry leaves one entry of that text: the new one, with
\* the id and timestamp of this save, at the first position.
C3_OneEntryPerText ==
    /\ [](\A i, j \in 1..Len(items) : i # j => items[i].text # items[j].text)
    /\ [][(SavedStep /\ trim(text) \in Texts(items)) =>
            /\ Cardinality({i \in 1..Len(items') : items'[i].text = trim(text)}) = 1
            /\ items'[1].text = trim(text)
            /\ items'[1].timestamp = now'
            /\ \E t \in now..now' : items'[1].id = NumToString(t)
            /\ items'[1].tags = selectedTags]_vars

C3_Witness ==
    /\ lastOp.name = "saveText" /\ lastOp.ok /\ lastOp.dup
    /\ Len(items) >= 2

\* C4: in every reachable state the ids of the entries are pairwise distinct,
\* also when the clock returns the same millisecond to two saves.
C4_IdsDistinct ==
    \A i, j \in 1..Len(items) : i # j => items[i].id # items[j].id

\* C5: the list is in descending timestamp order, the most recent first.
C5_DescendingTimestamps ==
    \A i, j \in 1..Len(items) : i < j => items[i].timestamp >= items[j].timestamp

C5_Witness ==
    /\ lastOp.name = "deleteItem"
    /\ Len(items) >= 2
    /\ items[1].timestamp > items[2].timestamp

\* C6: a save of an input that is empty or white space only changes neither
\* the list, the tag selection, the content type selection nor the input, and
\* so every entry has a non-empty text.
C6_EmptySaveIsNoOp ==
    /\ [](\A i \in 1..Len(items) : items[i].text # <<>>)
    /\ [][(lastOp'.name = "saveText" /\ \A i \in 1..Len(text) : IsWhiteSpace(text[i]))
            => UNCHANGED <<items, selectedTags, contentType, text>>]_vars

C6_Witness ==
    /\ lastOp.name = "saveText" /\ ~lastOp.ok
    /\ text # <<>>
    /\ selectedTags # <<>>
    /\ contentType # "text"

\* C7: the type of a saved entry is the selected type unless that is "text";
\* then it is url for a text starting with http:// or https://, else code for
\* one holding a code fence, "function", "const " or "import ", else markdown
\* for one holding "#", "*", "[" or "]", else text.
C7_TypeOfSavedEntry ==
    [][SavedStep =>
        LET t == items'[1].text
            url == IsPrefix(S_http, t) \/ IsPrefix(S_https, t)
            code == \E m \in {S_fence, S_function, S_const, S_import} : Contains(t, m)
            markdown == \E c \in {"#", "*", "[", "]"} : Contains(t, <<c>>)
        IN items'[1].type =
              IF contentType # "text" THEN contentType
              ELSE IF url THEN "url"
              ELSE IF code THEN "code"
              ELSE IF markdown THEN "markdown"
              ELSE "text"]_vars

C7_Witness ==
    /\ lastOp.name = "saveText" /\ lastOp.ok
    /\ items[1].type = "url"
    /\ Contains(items[1].text, S_function)

\* C8: delete(id) removes the entry with that id and leaves every other entry
\* and their order unchanged; with no entry of that id the list is unchanged.
C8_DeleteRemovesOneEntry ==
    [][lastOp'.name = "deleteItem" =>
        IF \E k \in 1..Len(items) : items[k].id = lastOp'.arg
        THEN \E k \in 1..Len(items) :
                items[k].id = lastOp'.arg /\ items' = Without(items, k)
        ELSE items' = items]_vars

\* C9: the visible list is the subsequence, in order, of the entries whose
\* text holds the query without regard to case and that pass the tag filter,
\* which passes every entry when it is off or no tag is selected and else the
\* entries with at least one selected tag; with an empty query and the filter
\* off the visible list is the list.
C9_VisibleList ==
    LET passes(e) ==
            /\ Contains(toLowerCase(e.text), toLowerCase(searchQuery))
            /\ \/ ~isTagFilterActive
               \/ selectedTags = <<>>
               \/ Range(e.tags) \cap Range(selectedTags) # {}
        idx == {i \in 1..Len(items) : passes(items[i])}
    IN /\ Len(filteredItems) = Cardinality(idx)
       /\ \A k \in 1..Len(filteredItems) :
             \E i \in idx : /\ filteredItems[k] = items[i]
                            /\ Cardinality({j \in idx : j < i}) = k - 1
       /\ (searchQuery = <<>> /\ ~isTagFilterActive) => filteredItems = items

C9_Witness ==
    /\ isTagFilterActive
    /\ Len(selectedTags) = 2
    /\ searchQuery # <<>>
    /\ Len(items) = 2
    /\ Len(filteredItems) = 1
    /\ Len(filteredItems[1].tags) = 1
    /\ filteredItems[1].text # toLowerCase(filteredItems[1].text)

\* C10: the vocabulary starts as the predefined list, never loses a tag and
\* never holds a tag twice; adding a tag that is empty once trimmed or is in
\* the vocabulary changes neither the vocabulary nor the selection, any other
\* add appends the trimmed tag to both, and no other handler changes the
\* vocabulary.
C10_Vocabulary ==
    /\ allTags = PREDEFINED_TAGS
    /\ [](\A i, j \in 1..Len(allTags) : i # j => allTags[i] # allTags[j])
    /\ [][/\ IsPrefix(allTags, allTags')
          /\ lastOp'.name # "addTag" => allTags' = allTags
          /\ lastOp'.name = "addTag" =>
                IF trim(newTag) = <<>> \/ \E i \in 1..Len(allTags) : allTags[i] = trim(newTag)
                THEN UNCHANGED <<allTags, selectedTags>>
                ELSE /\ allTags' = allTags \o <<trim(newTag)>>
                     /\ selectedTags' = selectedTags \o <<trim(newTag)>>]_vars

C10_Witness ==
    /\ lastOp.name = "addTag" /\ lastOp.ok
    /\ Len(allTags) > Len(PREDEFINED_TAGS)
    /\ Len(selectedTags) = 2
    /\ selectedTags[2] = allTags[Len(allTags)]
    /\ lastOp.arg # allTags[Len(allTags)]

\* The value a parseable document holds, and no value for another one.
Stored(doc) == IF IsParseable(doc) THEN doc.json ELSE <<"unparseable">>

\* localStorage holds the entry list, the setting and the vocabulary.
StorageHoldsState ==
    /\ itemsOfJSON(Stored(storage.items)) = items
    /\ parseInt(storage.maxItems) = [nan |-> FALSE, val |-> maxItems]
    /\ tagsOfJSON(Stored(storage.tags)) = allTags

\* C11: once the persist effects have run the three persisted values are the
\* entry list, maxItems and the vocabulary, and a fresh mount ends with the
\* entry list, maxItems and vocabulary the page had before the restart: the
\* write of the initial empty list at mount does not lose the persisted list.
C11_RestartRestoresState ==
    /\ [](phase = "idle" => IsParseable(storage.items) /\ IsParseable(storage.tags)
                            /\ StorageHoldsState)
    /\ [][lastOp'.name = "mounted" =>
            /\ before.taken
            /\ items' = before.items
            /\ maxItems' = before.maxItems
            /\ allTags' = before.allTags]_vars

C11_Witness ==
    /\ lastOp.name = "mounted"
    /\ Len(items) = 2
    /\ \E i \in 1..2 : Contains(items[i].text, <<"\"", "\\", "\n">>)
    /\ maxItems # DefaultMaxItems
    /\ Len(allTags) > Len(PREDEFINED_TAGS)

\* C12: a mount over an entry list that is not JSON ends with the empty list,
\* one over a vocabulary that is not JSON with the predefined tags; the other
\* values are loaded all the same, and the handlers are usable afterwards.
C12_CorruptStorageFallsBack ==
    /\ [][lastOp'.name = "mounted" =>
            LET bad == Range(before.corrupt)
            IN /\ "items" \in bad => items' = <<>>
               /\ "items" \notin bad => items' = before.items
               /\ "tags" \in bad => allTags' = PREDEFINED_TAGS
               /\ "tags" \notin bad => allTags' = before.allTags
               /\ maxItems' = before.maxItems
               /\ phase' = "idle"
               /\ IsParseable(storage'.items) /\ IsParseable(storage'.tags)]_vars
    /\ [](phase = "idle" =>
            /\ ENABLED (\E v \in RestartTexts : setText(v))
            /\ (saveGuard(text) /\ now < MaxClock)
                  => ENABLED (\E t \in ClockValues : saveText(t, t))
            /\ ENABLED (\E id \in IdChoices : deleteItem(id))
            /\ items # <<>> => ENABLED clearAll
            /\ ENABLED addTag)

C12_Witness ==
    /\ lastOp.name = "mounted"
    /\ lastOp.arg = <<"items">>
    /\ items = <<>>
    /\ maxItems # DefaultMaxItems
    /\ Len(allTags) > Len(PREDEFINED_TAGS)

\* C13: maxItems is an integer from 1 to 200, at the start, after every
\* change through the Maximum entries input and after loading the setting.
C13_MaxItemsInRange == maxItems \in 1..200

\* C14: the preview of an entry is its text when that has at most 50
\* characters, else the first 50 characters and three dots; it never has
\* more than 53 characters.
C14_Preview ==
    \A i \in 1..Len(items) :
        LET e == items[i]
        IN /\ Len(e.text) <= 50 => e.preview = e.text
           /\ Len(e.text) > 50 =>
                 e.preview = [k \in 1..53 |-> IF k <= 50 THEN e.text[k] ELSE "."]
           /\ Len(e.preview) <= 53

C14_Witness ==
    /\ lastOp.name = "saveText" /\ lastOp.ok
    /\ Len(items[1].text) = 51
    /\ Len(items[1].preview) = 53

\* C15: a successful save gives the new entry the tags selected at that
\* moment, in their order, empties the selection, resets the content type and
\* leaves tagFilterActive alone, so that right after it the visible list is
\* the entries whose text holds the query, also with the filter on.
C15_SaveConsumesSelection ==
    [][SavedStep =>
        /\ items'[1].tags = selectedTags
        /\ selectedTags' = <<>>
        /\ contentType' = "text"
        /\ isTagFilterActive' = isTagFilterActive
        /\ filteredItems' =
              SelectSeq(items', LAMBDA e :
                  Contains(toLowerCase(e.text), toLowerCase(searchQuery')))]_vars

C15_Witness ==
    /\ lastOp.name = "saveText" /\ lastOp.ok
    /\ isTagFilterActive
    /\ Len(items) = 2
    /\ Len(items[1].tags) = 2
    /\ items[1].type = "code"
    /\ searchQuery # <<>>
    /\ Len(filteredItems) = 1

====
